---- MODULE Spec2Model ----
(***************************************************************************)
(* CTC decoding of examples/speech_to_text/tasks/speech_to_text_ctcgen.py: *)
(* CTCBeamEntry, CTCGenerator.beam_search, CTCGenerator.deduplicate,       *)
(* CTCGenerator.best_path_decoding and CTCGenerator.generate.              *)
(*                                                                         *)
(* Numbers.  A frame of the CTC output is a function from the label        *)
(* indices 0..vocab_size-1 to integer weights; the probability of label i  *)
(* is weight/Unit.  A log-probability is the record [m, e] that stands for *)
(* ln(m / Unit^e): adding log-probabilities multiplies the m and adds the  *)
(* e, torch.logsumexp adds the m over a common e, -inf is m = 0 and 0.0 is *)
(* [m |-> 1, e |-> 0].  The arithmetic is exact: floating point rounding   *)
(* is not modelled.                                                        *)
(***************************************************************************)
EXTENDS Integers, Sequences, FiniteSets, TLC

\* ------------------------------------------------------------------------
\* Bounds of the model
\* ------------------------------------------------------------------------
MaxWork == 5        \* batch items + valid frames + beam size of a beam_search call
MaxBatch == 2       \* batch items of one call
MaxGreedyCells == 2 \* frames (B x T) of the tensor given to best_path_decoding
MaxDup == 3         \* length of the list given to deduplicate on its own

\* ------------------------------------------------------------------------
\* Inputs
\* ------------------------------------------------------------------------
Labels(V) == 0 .. (V - 1)

Frame3(a, b, c) == (0 :> a) @@ (1 :> b) @@ (2 :> c)

\* The 2-step, 3-symbol example [[0.6,0.3,0.1],[0.1,0.1,0.8]], in tenths.
RegressionInput == << Frame3(6, 3, 1), Frame3(1, 1, 8) >>

RECURSIVE SumWeights(_, _)
SumWeights(f, V) == IF V = 0 THEN 0 ELSE f[V - 1] + SumWeights(f, V - 1)

\* Weights are in units of 1/Unit (tenths).
Unit == SumWeights(RegressionInput[1], 3)

\* task.source_dictionary: its size and the index of "<ctc_blank>".  The
\* 3-symbol dictionary is the one of the regression example (blank = 0).
Dictionaries == {[size |-> 3, blank |-> 0], [size |-> 4, blank |-> 1]}
BeamSizes == {1, 2}           \* args.beam
LenPenalties == {0, 1}        \* args.lenpen

Frame4(a, b, c, d) == (0 :> a) @@ (1 :> b) @@ (2 :> c) @@ (3 :> d)

Rotations(f, V) == {[i \in Labels(V) |-> f[(i + r) % V]] : r \in Labels(V)}

\* The frames the model feeds.  Over 3 labels: the two frames of the
\* regression example with their labels rotated (a dominant label with and
\* without a tie among the others).  Over 4 labels: a frame with a dominant
\* label and a tie, and a frame with no label above one half.
Frames(V) ==
    IF V = 3
    THEN Rotations(RegressionInput[1], V) \cup Rotations(RegressionInput[2], V)
    ELSE Rotations(Frame4(6, 2, 1, 1), V) \cup Rotations(Frame4(4, 3, 2, 1), V)

\* ------------------------------------------------------------------------
\* Exact arithmetic on log-probabilities
\* ------------------------------------------------------------------------
Max(a, b) == IF a >= b THEN a ELSE b
Min(a, b) == IF a <= b THEN a ELSE b

RECURSIVE Pow(_, _)
Pow(b, k) == IF k = 0 THEN 1 ELSE b * Pow(b, k - 1)

RECURSIVE Canon(_, _)
Canon(m, e) ==
    IF m = 0 THEN [m |-> 0, e |-> 0]
    ELSE IF e > 0 /\ m % Unit = 0 THEN Canon(m \div Unit, e - 1)
    ELSE [m |-> m, e |-> e]

NegInf == [m |-> 0, e |-> 0]          \* torch.tensor(-float('inf'))
ZeroLogProb == [m |-> 1, e |-> 0]     \* torch.tensor(0.0)

LogProbOf(f, i) == Canon(f[i], 1)     \* lprobs[i]

AddLog(a, b) == Canon(a.m * b.m, a.e + b.e)       \* a + b

LogSumExp2(a, b) ==
    LET e == Max(a.e, b.e)
    IN  Canon(a.m * Pow(Unit, e - a.e) + b.m * Pow(Unit, e - b.e), e)

\* torch.logsumexp(torch.stack(xs), -1)
RECURSIVE logsumexp(_)
logsumexp(xs) ==
    IF Len(xs) = 0 THEN NegInf
    ELSE LogSumExp2(Head(xs), logsumexp(Tail(xs)))

\* Unbounded naturals as little-endian digit sequences in base BigBase, used
\* only to compare scores exactly.
BigBase == 100 * 100

RECURSIVE BigMulCarry(_, _, _)
BigMulCarry(big, k, carry) ==
    IF Len(big) = 0
    THEN IF carry = 0 THEN << >>
         ELSE << carry % BigBase >> \o BigMulCarry(<< >>, k, carry \div BigBase)
    ELSE LET v == Head(big) * k + carry
         IN  << v % BigBase >> \o BigMulCarry(Tail(big), k, v \div BigBase)

RECURSIVE BigStrip(_)
BigStrip(big) ==
    IF Len(big) > 0 /\ big[Len(big)] = 0
    THEN BigStrip(SubSeq(big, 1, Len(big) - 1))
    ELSE big

BigMul(big, k) == BigStrip(BigMulCarry(big, k, 0))

RECURSIVE BigMulPow(_, _, _)
BigMulPow(big, k, times) ==
    IF times = 0 THEN big ELSE BigMulPow(BigMul(big, k), k, times - 1)

RECURSIVE BigGeqFrom(_, _, _)
BigGeqFrom(a, b, i) ==
    IF i = 0 THEN TRUE
    ELSE IF a[i] # b[i] THEN a[i] > b[i]
    ELSE BigGeqFrom(a, b, i - 1)

BigGeq(a, b) ==
    IF Len(a) # Len(b) THEN Len(a) > Len(b) ELSE BigGeqFrom(a, b, Len(a))

\* A score is the record [m, e, mul, div] that stands for
\* ln(m / Unit^e) * mul / div, with mul and div positive.
ScoreOf(lp) == [m |-> lp.m, e |-> lp.e, mul |-> 1, div |-> 1]

\* a >= b on scores:  (m_a/Unit^e_a)^x >= (m_b/Unit^e_b)^y
\* with x = mul_a * div_b and y = mul_b * div_a.
ScoreGeq(a, b) ==
    IF b.m = 0 THEN TRUE
    ELSE IF a.m = 0 THEN FALSE
    ELSE IF a.mul = b.mul /\ a.div = b.div /\ a.e = b.e THEN a.m >= b.m
    ELSE LET x == a.mul * b.div
             y == b.mul * a.div
             common == Min(b.e * y, a.e * x)
             lhs == BigMulPow(BigMulPow(<< 1 >>, a.m, x), Unit, b.e * y - common)
             rhs == BigMulPow(BigMulPow(<< 1 >>, b.m, y), Unit, a.e * x - common)
         IN  BigGeq(lhs, rhs)

ScoreGt(a, b) == ~ScoreGeq(b, a)
ScoreEq(a, b) == ScoreGeq(a, b) /\ ScoreGeq(b, a)

\* ------------------------------------------------------------------------
\* CTCBeamEntry
\* ------------------------------------------------------------------------
CTCBeamEntry(prefix, non_blank_end_logprob, blank_end_logprob) ==
    [prefix |-> prefix,
     non_blank_end_logprob |-> non_blank_end_logprob,
     blank_end_logprob |-> blank_end_logprob]

logprob(self) ==
    logsumexp(<< self.non_blank_end_logprob, self.blank_end_logprob >>)

\* Mutant: multiplies by the length term instead of dividing by it.
normalized_logprob_times_length(self, len_pen) ==
    LET lp == logsumexp(<< self.non_blank_end_logprob, self.blank_end_logprob >>)
    IN  [m |-> lp.m, e |-> lp.e, mul |-> Pow(1 + Len(self.prefix), len_pen),
         div |-> 1]

normalized_logprob(self, len_pen) ==
    LET lp == logprob(self)
    IN  [m |-> lp.m, e |-> lp.e, mul |-> 1,
         div |-> Pow(1 + Len(self.prefix), len_pen)]

last_idx_of(self, blank_idx) ==
    IF Len(self.prefix) > 0 THEN self.prefix[Len(self.prefix)] ELSE blank_idx

\* torch.topk(lprobs, k): the results the library may return.  The k largest
\* values in descending order; the order among equal values is unspecified.
\* With k larger than the number of labels the call raises (the empty set).
Topk(lprobs, V, k) ==
    {s \in [1 .. k -> Labels(V)] :
        /\ \A i, j \in 1 .. k : i < j => s[i] # s[j] /\ lprobs[s[i]] >= lprobs[s[j]]
        /\ \A c \in Labels(V) :
             (\A i \in 1 .. k : s[i] # c) => \A i \in 1 .. k : lprobs[s[i]] >= lprobs[c]}

\* Topk tabulated over the dictionaries, the beam sizes and the frames.
TopkTable ==
    [V \in {d.size : d \in Dictionaries} |->
        [k \in BeamSizes |-> [f \in Frames(V) |-> Topk(f, V, k + 2)]]]

\* Iteration order of a Python set of small non-negative ints: ascending.
RECURSIVE SetToSeq(_)
SetToSeq(S) ==
    IF S = {} THEN << >>
    ELSE LET lo == CHOOSE x \in S : \A y \in S : x <= y
         IN  << lo >> \o SetToSeq(S \ {lo})

NewSymbolEntry(self, lprobs, idx) ==
    CTCBeamEntry(self.prefix \o << idx >>,
                 AddLog(logprob(self), LogProbOf(lprobs, idx)),
                 NegInf)

\* Mutant: the loop skips the blank only, not the entry's last symbol.
RECURSIVE add_next_while_keep_last(_, _, _, _, _, _, _, _)
add_next_while_keep_last(self, lprobs, tokens, blank_idx, beam_size, top_indices, next_beam_entries, i) ==
    IF Len(next_beam_entries) <= beam_size
    THEN LET curr_idx == top_indices[i + 1]
         IN  IF curr_idx = blank_idx
             THEN add_next_while_keep_last(self, lprobs, tokens, blank_idx,
                                           beam_size, top_indices,
                                           next_beam_entries, i + 1)
             ELSE add_next_while_keep_last(self, lprobs, tokens \ {curr_idx},
                                           blank_idx, beam_size, top_indices,
                                           Append(next_beam_entries,
                                                  NewSymbolEntry(self, lprobs, curr_idx)),
                                           i + 1)
    ELSE [entries |-> next_beam_entries, tokens |-> tokens]

\* The while loop of add_next; i is the 0-based position in top_indices.
RECURSIVE add_next_while(_, _, _, _, _, _, _, _)
add_next_while(self, lprobs, tokens, blank_idx, beam_size, top_indices, next_beam_entries, i) ==
    IF Len(next_beam_entries) <= beam_size
    THEN LET curr_idx == top_indices[i + 1]
         IN  IF curr_idx = blank_idx \/ curr_idx = last_idx_of(self, blank_idx)
             THEN add_next_while(self, lprobs, tokens, blank_idx, beam_size,
                                 top_indices, next_beam_entries, i + 1)
             ELSE add_next_while(self, lprobs, tokens \ {curr_idx}, blank_idx,
                                 beam_size, top_indices,
                                 Append(next_beam_entries,
                                        NewSymbolEntry(self, lprobs, curr_idx)),
                                 i + 1)
    ELSE [entries |-> next_beam_entries, tokens |-> tokens]

RECURSIVE TokenEntries(_, _, _)
TokenEntries(self, lprobs, idxs) ==
    IF Len(idxs) = 0 THEN << >>
    ELSE << NewSymbolEntry(self, lprobs, Head(idxs)) >>
         \o TokenEntries(self, lprobs, Tail(idxs))

\* Mutant: the tokens to be considered left by the loop are not appended.
add_next_without_tokens(self, lprobs, tokens_to_be_considered, blank_idx, beam_size, top_indices) ==
    LET last_idx == last_idx_of(self, blank_idx)
        first == << CTCBeamEntry(
                      self.prefix,
                      AddLog(self.non_blank_end_logprob, LogProbOf(lprobs, last_idx)),
                      AddLog(logprob(self), LogProbOf(lprobs, blank_idx))) >>
        loop == add_next_while(self, lprobs, tokens_to_be_considered, blank_idx,
                               beam_size, top_indices, first, 0)
    IN  loop.entries

add_next(self, lprobs, tokens_to_be_considered, blank_idx, beam_size, top_indices) ==
    LET last_idx == last_idx_of(self, blank_idx)
        first == << CTCBeamEntry(
                      self.prefix,
                      AddLog(self.non_blank_end_logprob, LogProbOf(lprobs, last_idx)),
                      AddLog(logprob(self), LogProbOf(lprobs, blank_idx))) >>
        loop == add_next_while(self, lprobs, tokens_to_be_considered, blank_idx,
                               beam_size, top_indices, first, 0)
    IN  loop.entries \o TokenEntries(self, lprobs, SetToSeq(loop.tokens))

\* ------------------------------------------------------------------------
\* CTCGenerator
\* ------------------------------------------------------------------------
VARIABLES
    vocab_size, beam_size, blank, len_penalty, sampling,   \* CTCGenerator.__init__
    prob_ctc,          \* the rows of the B x T x D tensor read so far
    ctc_lengths,       \* valid length of each batch item
    pc,                \* "beam_search", "best_path_decoding", "deduplicate",
                       \* "done" or "error"
    batch_idx, n,      \* loop counters of beam_search
    beam,              \* beam of the current batch item
    batch_predicted,   \* the list being built
    returned,          \* what generate returned
    entries,           \* the beam that the last loop iteration extended
    top_indices,       \* result of torch.topk in the last loop iteration
    next_beam_entries, \* per extended entry, what add_next returned
    beam_with_dup,     \* argument of the last call of deduplicate
    new_beam           \* result of the last call of deduplicate

vars == << vocab_size, beam_size, blank, len_penalty, sampling, prob_ctc,
           ctc_lengths, pc, batch_idx, n, beam, batch_predicted, returned,
           entries, top_indices, next_beam_entries, beam_with_dup, new_beam >>

config == << vocab_size, beam_size, blank, len_penalty, sampling >>
locals == << entries, top_indices, next_beam_entries, beam_with_dup, new_beam >>

None == [none |-> TRUE, value |-> << >>]
Value(v) == [none |-> FALSE, value |-> v]

penalty_aware_score_with(len_pen, x) ==
    IF len_pen = 0 THEN ScoreOf(logprob(x)) ELSE normalized_logprob(x, len_pen)

penalty_aware_score(x) == penalty_aware_score_with(len_penalty, x)

\* dedup_dict.keys(), in insertion order
RECURSIVE DedupKeys(_, _)
DedupKeys(es, seen) ==
    IF Len(es) = 0 THEN << >>
    ELSE IF Head(es).prefix \in seen THEN DedupKeys(Tail(es), seen)
    ELSE << Head(es).prefix >> \o DedupKeys(Tail(es), seen \cup {Head(es).prefix})

\* dedup_dict[key]
RECURSIVE SameEntries(_, _)
SameEntries(es, key) ==
    IF Len(es) = 0 THEN << >>
    ELSE IF Head(es).prefix = key THEN << Head(es) >> \o SameEntries(Tail(es), key)
    ELSE SameEntries(Tail(es), key)

\* Mutant: the first of the duplicates is kept, the masses are not summed.
MergeEntriesFirst(same_entries) == same_entries[1]

MergeEntries(same_entries) ==
    IF Len(same_entries) = 1 THEN same_entries[1]
    ELSE CTCBeamEntry(
            same_entries[1].prefix,
            logsumexp([i \in 1 .. Len(same_entries) |->
                          same_entries[i].non_blank_end_logprob]),
            logsumexp([i \in 1 .. Len(same_entries) |->
                          same_entries[i].blank_end_logprob]))

\* Mutant: nothing is merged.
deduplicate_nothing(es) == es

deduplicate(es) ==
    LET keys == DedupKeys(es, {})
    IN  [k \in 1 .. Len(keys) |-> MergeEntries(SameEntries(es, keys[k]))]

\* sorted(es, key=penalty_aware_score, reverse=True): stable, descending.
\* Mutant: ascending order (reverse=True forgotten).
RECURSIVE InsertSortedAscending(_, _, _)
InsertSortedAscending(sorted, x, len_pen) ==
    IF Len(sorted) = 0 THEN << x >>
    ELSE IF ScoreGeq(penalty_aware_score_with(len_pen, x),
                     penalty_aware_score_with(len_pen, Head(sorted)))
         THEN << Head(sorted) >> \o InsertSortedAscending(Tail(sorted), x, len_pen)
         ELSE << x >> \o sorted

RECURSIVE InsertSorted(_, _, _)
InsertSorted(sorted, x, len_pen) ==
    IF Len(sorted) = 0 THEN << x >>
    ELSE IF ScoreGeq(penalty_aware_score_with(len_pen, Head(sorted)),
                     penalty_aware_score_with(len_pen, x))
         THEN << Head(sorted) >> \o InsertSorted(Tail(sorted), x, len_pen)
         ELSE << x >> \o sorted

RECURSIVE SortedWith(_, _)
SortedWith(es, len_pen) ==
    IF Len(es) = 0 THEN << >>
    ELSE InsertSorted(SortedWith(SubSeq(es, 1, Len(es) - 1), len_pen),
                      es[Len(es)], len_pen)

sorted_reverse(es) == SortedWith(es, len_penalty)

Truncate(es, k) == SubSeq(es, 1, Min(k, Len(es)))     \* es[:k]

RECURSIVE Flatten(_)
Flatten(ss) == IF Len(ss) = 0 THEN << >> ELSE Head(ss) \o Flatten(Tail(ss))

InitialBeam == << CTCBeamEntry(<< >>, NegInf, ZeroLogProb) >>

ButLast(s) == SubSeq(s, 1, Len(s) - 1)                \* s[:-1]

tokens_to_be_considered(entry, bm) ==
    {bm[j].prefix[Len(bm[j].prefix)] :
        j \in {i \in 1 .. Len(bm) :
                 Len(bm[i].prefix) > 0 /\ entry.prefix = ButLast(bm[i].prefix)}}

Hypothesis(beam_entry) ==
    [tokens |-> beam_entry.prefix, score |-> penalty_aware_score(beam_entry)]

BatchSize == Len(ctc_lengths)

RECURSIVE SumSeq(_)
SumSeq(s) == IF Len(s) = 0 THEN 0 ELSE Head(s) + SumSeq(Tail(s))

\* The values of ctc_lengths given to beam_search.
Shapes(k) ==
    {s \in UNION {[1 .. b -> 0 .. MaxWork] : b \in 1 .. MaxBatch} :
        Len(s) + SumSeq(s) + k <= MaxWork}

RECURSIVE MaxSeq(_)
MaxSeq(s) == IF Len(s) = 0 THEN 0 ELSE Max(Head(s), MaxSeq(Tail(s)))

\* The values of ctc_lengths given to best_path_decoding.
GreedyShapes ==
    {s \in UNION {[1 .. b -> 0 .. MaxGreedyCells] : b \in 1 .. MaxBatch} :
        Len(s) * MaxSeq(s) <= MaxGreedyCells}

\* The B x T x D tensors that go with ctc_lengths.
GreedyTensors(lens, V) ==
    UNION {[1 .. Len(lens) -> [1 .. T -> Frames(V)]] :
             T \in MaxSeq(lens) .. (MaxGreedyCells \div Len(lens))}

\* row.max(-1): the index of the first maximal value
ArgMax(row, V) ==
    CHOOSE i \in Labels(V) :
        /\ \A j \in Labels(V) : row[i] >= row[j]
        /\ \A j \in Labels(V) : j < i => row[j] < row[i]

most_likely_elements(rows, V) == [t \in 1 .. Len(rows) |-> ArgMax(rows[t], V)]

highest_probs(rows, V) == [t \in 1 .. Len(rows) |-> rows[t][ArgMax(rows[t], V)]]

\* [p[0] for p in groupby(elements) if p[0] != blank]
RECURSIVE predicted_tokens(_, _)
predicted_tokens(elements, blank_idx) ==
    IF Len(elements) = 0 THEN << >>
    ELSE LET rest == predicted_tokens(Tail(elements), blank_idx)
         IN  IF Len(elements) > 1 /\ elements[2] = elements[1] THEN rest
             ELSE IF elements[1] = blank_idx THEN rest
             ELSE << elements[1] >> \o rest

RECURSIVE Prod(_)
Prod(s) == IF Len(s) = 0 THEN 1 ELSE Head(s) * Prod(Tail(s))

\* The dictionary appended for index b (0-based) of the transposed tensor:
\* the rows prob_ctc[b][: ctc_lengths[b]] after the transpose(0, 1).
GreedyPrediction(tensor, lens, b, V, blank_idx) ==
    LET rows == [j \in 1 .. Min(lens[b + 1], Len(tensor)) |-> tensor[j][b + 1]]
    IN  [tokens |-> predicted_tokens(most_likely_elements(rows, V), blank_idx),
         score |-> [m |-> Prod(highest_probs(rows, V)), e |-> Len(rows)],
         positional_scores |-> highest_probs(rows, V)]

NoLocals ==
    /\ entries = << >>
    /\ top_indices = << >>
    /\ next_beam_entries = << >>
    /\ beam_with_dup = << >>
    /\ new_beam = << >>

\* CTCGenerator.__init__ and the entry of generate up to self.search(...)
Init ==
    /\ \E tgt_dict \in Dictionaries :
          vocab_size = tgt_dict.size /\ blank = tgt_dict.blank
    /\ beam_size \in BeamSizes
    /\ len_penalty \in LenPenalties
    /\ sampling \in BOOLEAN
    /\ ctc_lengths \in IF sampling THEN GreedyShapes ELSE Shapes(beam_size)
    /\ prob_ctc = [b \in 1 .. Len(ctc_lengths) |-> << >>]
    /\ pc = IF sampling THEN "best_path_decoding" ELSE "beam_search"
    /\ batch_idx = 0
    /\ n = 0
    /\ beam = InitialBeam
    /\ batch_predicted = << >>
    /\ returned = None
    /\ NoLocals

\* new_beam.extend(entry.add_next(...)) for every entry of the beam
Extensions(bm, lprobs, top) ==
    [i \in 1 .. Len(bm) |->
        add_next(bm[i], lprobs, tokens_to_be_considered(bm[i], bm),
                 blank, beam_size, top)]

\* sorted(self.deduplicate(new_beam), key=..., reverse=True)[:self.beam_size]
NextBeam(dedup) == Truncate(sorted_reverse(dedup), beam_size)

\* One iteration of the loop over n in beam_search.  The frame
\* prob_ctc[batch_idx, n, :] is drawn when it is read and kept in prob_ctc.
ExtendBeam ==
    /\ pc = "beam_search"
    /\ batch_idx < BatchSize
    /\ n < ctc_lengths[batch_idx + 1]
    /\ beam_size + 2 <= vocab_size
    /\ \E lprobs \in Frames(vocab_size) :
         \E top \in TopkTable[vocab_size][beam_size][lprobs] :
            LET exts == Extensions(beam, lprobs, top)
                dedup == deduplicate(Flatten(exts))
            IN  /\ prob_ctc' = [prob_ctc EXCEPT ![batch_idx + 1] = Append(@, lprobs)]
                /\ entries' = beam
                /\ top_indices' = top
                /\ next_beam_entries' = exts
                /\ beam_with_dup' = Flatten(exts)
                /\ new_beam' = dedup
                /\ beam' = NextBeam(dedup)
    /\ n' = n + 1
    /\ UNCHANGED << config, ctc_lengths, pc, batch_idx, batch_predicted, returned >>

\* The same iteration when beam_size + 2 exceeds the vocabulary size:
\* torch.topk raises in the first add_next.
TopkRaises ==
    /\ pc = "beam_search"
    /\ batch_idx < BatchSize
    /\ n < ctc_lengths[batch_idx + 1]
    /\ beam_size + 2 > vocab_size
    /\ \E lprobs \in Frames(vocab_size) :
         prob_ctc' = [prob_ctc EXCEPT ![batch_idx + 1] = Append(@, lprobs)]
    /\ pc' = "error"
    /\ UNCHANGED << config, ctc_lengths, batch_idx, n, beam,
                    batch_predicted, returned, locals >>

\* Mutant: the beam is not initialised again for the next batch item.
AppendPredictedKeepBeam ==
    /\ pc = "beam_search"
    /\ batch_idx < BatchSize
    /\ n = ctc_lengths[batch_idx + 1]
    /\ batch_predicted' =
          Append(batch_predicted, [i \in 1 .. Len(beam) |-> Hypothesis(beam[i])])
    /\ batch_idx' = batch_idx + 1
    /\ IF batch_idx + 1 < BatchSize
       THEN n' = 0 /\ beam' = beam
       ELSE UNCHANGED << n, beam >>
    /\ UNCHANGED << config, prob_ctc, ctc_lengths, pc, returned, locals >>

\* End of the loop over n: append the item's hypotheses, go to the next item.
AppendPredicted ==
    /\ pc = "beam_search"
    /\ batch_idx < BatchSize
    /\ n = ctc_lengths[batch_idx + 1]
    /\ batch_predicted' =
          Append(batch_predicted, [i \in 1 .. Len(beam) |-> Hypothesis(beam[i])])
    /\ batch_idx' = batch_idx + 1
    /\ IF batch_idx + 1 < BatchSize
       THEN n' = 0 /\ beam' = InitialBeam
       ELSE UNCHANGED << n, beam >>
    /\ UNCHANGED << config, prob_ctc, ctc_lengths, pc, returned, locals >>

ReturnPredicted ==
    /\ pc = "beam_search"
    /\ batch_idx = BatchSize
    /\ returned' = Value(batch_predicted)
    /\ pc' = "done"
    /\ UNCHANGED << config, prob_ctc, ctc_lengths, batch_idx, n, beam,
                    batch_predicted, locals >>

\* best_path_decoding as generate calls it, with a B x T x D tensor: the
\* function transposes the two leading axes, so that it walks the T time
\* steps as if they were batch items, indexes ctc_lengths with them (an
\* IndexError once the index reaches B), and ends without a return.
BestPathDecoding ==
    /\ pc = "best_path_decoding"
    /\ \E tensor \in GreedyTensors(ctc_lengths, vocab_size) :
         LET T == Len(tensor[1])
         IN  /\ prob_ctc' = tensor
             /\ IF T > BatchSize
                THEN /\ pc' = "error"
                     /\ batch_predicted' =
                           [b \in 1 .. BatchSize |->
                              GreedyPrediction(tensor, ctc_lengths, b - 1,
                                               vocab_size, blank)]
                ELSE /\ pc' = "done"
                     /\ batch_predicted' =
                           [b \in 1 .. T |->
                              GreedyPrediction(tensor, ctc_lengths, b - 1,
                                               vocab_size, blank)]
    /\ returned' = None
    /\ UNCHANGED << config, ctc_lengths, batch_idx, n, beam, locals >>

Next ==
    \/ ExtendBeam
    \/ TopkRaises
    \/ AppendPredicted
    \/ ReturnPredicted
    \/ BestPathDecoding

Spec == Init /\ [][Next]_vars

\* ------------------------------------------------------------------------
\* deduplicate on its own: any list of entries
\* ------------------------------------------------------------------------
DupPrefixes == {<< >>, << 2 >>}
DupNonBlank == {NegInf, Canon(1, 1), Canon(3, 2)}
DupBlank == {NegInf, Canon(1, 1)}

DupEntries ==
    {CTCBeamEntry(p, nb, b) : p \in DupPrefixes, nb \in DupNonBlank, b \in DupBlank}

DedupInputs == UNION {[1 .. k -> DupEntries] : k \in 0 .. MaxDup}

InitDedup ==
    /\ vocab_size = 3
    /\ blank = 0
    /\ beam_size = 1
    /\ len_penalty = 0
    /\ sampling = FALSE
    /\ ctc_lengths = << >>
    /\ prob_ctc = << >>
    /\ pc = "deduplicate"
    /\ batch_idx = 0
    /\ n = 0
    /\ beam = << >>
    /\ batch_predicted = << >>
    /\ returned = None
    /\ entries = << >>
    /\ top_indices = << >>
    /\ next_beam_entries = << >>
    /\ beam_with_dup \in DedupInputs
    /\ new_beam = << >>

Deduplicate ==
    /\ pc = "deduplicate"
    /\ new_beam' = deduplicate(beam_with_dup)
    /\ pc' = "deduplicated"
    /\ UNCHANGED << config, prob_ctc, ctc_lengths, batch_idx, n, beam,
                    batch_predicted, returned, entries, top_indices,
                    next_beam_entries, beam_with_dup >>

NextDedup == Deduplicate

SpecDedup == InitDedup /\ [][NextDedup]_vars

\* ------------------------------------------------------------------------
\* Properties
\* ------------------------------------------------------------------------
InBeamSearch == ~sampling /\ pc \in {"beam_search", "done", "error"}

\* The state right after an iteration of the loop over n.
AfterStep == InBeamSearch /\ pc # "error" /\ batch_idx < BatchSize /\ n > 0

NoDupPrefix(es) ==
    \A i, j \in 1 .. Len(es) : i # j => es[i].prefix # es[j].prefix

NoDupTokens(hyps) ==
    \A i, j \in 1 .. Len(hyps) : i # j => hyps[i].tokens # hyps[j].tokens

\* C1: the beam kept after every time step and every returned list hold at
\* most beam_size hypotheses, no two of them with the same prefix.
C1_BeamBoundedAndUnique ==
    InBeamSearch =>
        /\ Len(beam) <= beam_size
        /\ NoDupPrefix(beam)
        /\ \A b \in 1 .. Len(batch_predicted) :
              Len(batch_predicted[b]) <= beam_size /\ NoDupTokens(batch_predicted[b])
        /\ ~returned.none =>
              \A b \in 1 .. Len(returned.value) :
                 Len(returned.value[b]) <= beam_size /\ NoDupTokens(returned.value[b])

\* A returned search whose last step merged duplicates and cut the beam.
C1_Witness ==
    /\ InBeamSearch /\ pc = "done" /\ ~returned.none
    /\ Len(beam_with_dup) > Len(new_beam)
    /\ Len(new_beam) > beam_size
    /\ Len(beam) = beam_size

\* The score the claim states for an entry: the total log-probability when
\* len_penalty = 0, logprob / (1 + len(prefix))^len_penalty otherwise.
StatedScore(x) ==
    LET total == LogSumExp2(x.non_blank_end_logprob, x.blank_end_logprob)
    IN  [m |-> total.m, e |-> total.e, mul |-> 1,
         div |-> IF len_penalty = 0 THEN 1 ELSE Pow(1 + Len(x.prefix), len_penalty)]

\* C2: every returned list is ordered by penalty-aware score, descending,
\* and the score reported for a hypothesis is that ranking score (the beam
\* of the last item is still at hand when the call returns).
C2_SortedByScore ==
    InBeamSearch =>
        /\ \A b \in 1 .. Len(batch_predicted) :
              \A i \in 1 .. Len(batch_predicted[b]) - 1 :
                 ScoreGeq(batch_predicted[b][i].score, batch_predicted[b][i + 1].score)
        /\ (pc = "done" =>
              /\ returned = Value(batch_predicted)
              /\ Len(batch_predicted[BatchSize]) = Len(beam)
              /\ \A i \in 1 .. Len(beam) :
                    /\ batch_predicted[BatchSize][i].tokens = beam[i].prefix
                    /\ ScoreEq(batch_predicted[BatchSize][i].score, StatedScore(beam[i])))

\* A returned list of two hypotheses with different scores, under the
\* length penalty, whose order differs from the order by total logprob.
C2_Witness ==
    /\ InBeamSearch /\ pc = "done" /\ len_penalty = 1
    /\ Len(beam) = 2
    /\ ScoreGt(batch_predicted[BatchSize][1].score, batch_predicted[BatchSize][2].score)
    /\ ScoreGt(ScoreOf(logprob(beam[2])), ScoreOf(logprob(beam[1])))

WellFormed(prefix) ==
    \A i \in 1 .. Len(prefix) :
        prefix[i] # blank /\ (i > 1 => prefix[i] # prefix[i - 1])

\* C10: no prefix of a beam holds the blank or the same label at two
\* adjacent positions, tokens_to_be_considered never holds an entry's own
\* last symbol, and no returned hypothesis has a doubled label.
C10_NoBlankNoDoubledLabel ==
    InBeamSearch =>
        /\ \A i \in 1 .. Len(beam) : WellFormed(beam[i].prefix)
        /\ \A i \in 1 .. Len(new_beam) : WellFormed(new_beam[i].prefix)
        /\ \A i \in 1 .. Len(entries) :
              last_idx_of(entries[i], blank)
                 \notin tokens_to_be_considered(entries[i], entries)
        /\ \A i \in 1 .. Len(beam) :
              last_idx_of(beam[i], blank) \notin tokens_to_be_considered(beam[i], beam)
        /\ \A b \in 1 .. Len(batch_predicted) :
              \A i \in 1 .. Len(batch_predicted[b]) :
                 WellFormed(batch_predicted[b][i].tokens)

\* A returned hypothesis of two labels after a step in which an entry had a
\* token to be considered and the frame's most probable label was the last
\* label of an entry.
C10_Witness ==
    /\ InBeamSearch /\ pc = "done"
    /\ \E i \in 1 .. Len(batch_predicted[BatchSize]) :
          Len(batch_predicted[BatchSize][i].tokens) >= 2
    /\ \E i \in 1 .. Len(entries) :
          /\ tokens_to_be_considered(entries[i], entries) # {}
    /\ \E i \in 1 .. Len(entries) :
          /\ Len(entries[i].prefix) > 0
          /\ top_indices[1] = last_idx_of(entries[i], blank)

\* S shorter with the higher total logprob, L longer with the lower one.
ShortAhead(S, L) ==
    /\ Len(L.prefix) > Len(S.prefix)
    /\ ScoreGt(ScoreOf(logprob(S)), ScoreOf(logprob(L)))

\* C6 as stated: if S (shorter, higher total logprob) ranks above L (longer,
\* lower total logprob) by raw logprob, ranking the two with len_penalty = 1
\* never places L above S.
C6_Original ==
    InBeamSearch =>
        \A i, j \in 1 .. Len(new_beam) :
            ShortAhead(new_beam[i], new_beam[j]) =>
                ~ScoreGt(normalized_logprob(new_beam[j], 1),
                         normalized_logprob(new_beam[i], 1))

\* C6 amended: if the longer entry L has a total logprob at least that of
\* the shorter entry S, ranking the two with len_penalty = 1 never places S
\* above L (dividing a non-positive logprob by 1 + len favours the longer).
C6_LengthPenaltyFavoursLonger ==
    InBeamSearch =>
        \A i, j \in 1 .. Len(new_beam) :
            (/\ Len(new_beam[j].prefix) > Len(new_beam[i].prefix)
             /\ ScoreGeq(ScoreOf(logprob(new_beam[j])), ScoreOf(logprob(new_beam[i]))))
            => ~ScoreGt(normalized_logprob(new_beam[i], 1),
                        normalized_logprob(new_beam[j], 1))

\* Two entries, the longer with the strictly higher raw logprob, and also
\* two entries where the length penalty reverses the raw order.
C6_Witness ==
    /\ InBeamSearch
    /\ \E i, j \in 1 .. Len(new_beam) :
          /\ Len(new_beam[j].prefix) > Len(new_beam[i].prefix)
          /\ ScoreGt(ScoreOf(logprob(new_beam[j])), ScoreOf(logprob(new_beam[i])))
          /\ ScoreGt(normalized_logprob(new_beam[j], 1),
                     normalized_logprob(new_beam[i], 1))
    /\ \E i, j \in 1 .. Len(new_beam) :
          /\ ShortAhead(new_beam[i], new_beam[j])
          /\ ScoreGt(normalized_logprob(new_beam[j], 1),
                     normalized_logprob(new_beam[i], 1))

\* The score 0.0: ln(1).
ScoreIsZero(sc) == sc.m = Pow(Unit, sc.e)

\* The beams beam_search can reach for one item from its frames alone.
RECURSIVE BeamsAfter(_)
BeamsAfter(frames) ==
    IF Len(frames) = 0 THEN {InitialBeam}
    ELSE UNION {{NextBeam(deduplicate(Flatten(
                     Extensions(bm, frames[Len(frames)], top)))) :
                   top \in TopkTable[vocab_size][beam_size][frames[Len(frames)]]} :
                bm \in BeamsAfter(ButLast(frames))}

HypothesesOf(bm) == [i \in 1 .. Len(bm) |-> Hypothesis(bm[i])]

\* C8: an item of valid length zero does not make beam_search fail, takes
\* no extension step and yields exactly the initial entry (empty tokens,
\* score 0); the other items of its batch get the result their own frames
\* give.
C8_ZeroLengthItem ==
    InBeamSearch =>
        /\ \A b \in 1 .. Len(batch_predicted) :
              ctc_lengths[b] = 0 =>
                 /\ Len(batch_predicted[b]) = 1
                 /\ batch_predicted[b][1].tokens = << >>
                 /\ ScoreIsZero(batch_predicted[b][1].score)
                 /\ prob_ctc[b] = << >>
        /\ (batch_idx < BatchSize /\ ctc_lengths[batch_idx + 1] = 0) =>
              pc # "error" /\ n = 0 /\ beam = InitialBeam
        /\ (\E z \in 1 .. BatchSize : ctc_lengths[z] = 0) =>
              \A b \in 1 .. Len(batch_predicted) :
                 batch_predicted[b] \in
                    {HypothesesOf(bm) : bm \in BeamsAfter(prob_ctc[b])}

\* A returned batch whose second item has length zero and whose first item
\* went through extension steps.
C8_Witness ==
    /\ InBeamSearch /\ pc = "done"
    /\ BatchSize = 2
    /\ ctc_lengths[1] > 0 /\ ctc_lengths[2] = 0
    /\ Len(returned.value[1]) = 2
    /\ returned.value[2][1].tokens = << >>

Range(sq) == {sq[i] : i \in 1 .. Len(sq)}

\* The frame read by the last iteration of the loop over n.
LastFrame == prob_ctc[batch_idx + 1][n]

\* The symbols appended by add_next to entries[i]: all returned entries but
\* the first are new-symbol successors prefix + [s] with non-blank mass
\* logprob + P(s) and blank mass -inf, no symbol twice.
SuccessorsAreNewSymbols(i) ==
    LET e == entries[i]
        succ == next_beam_entries[i]
    IN  /\ Len(succ) >= 1
        /\ succ[1].prefix = e.prefix
        /\ \A j \in 2 .. Len(succ) :
              /\ Len(succ[j].prefix) = Len(e.prefix) + 1
              /\ ButLast(succ[j].prefix) = e.prefix
              /\ succ[j].non_blank_end_logprob =
                    AddLog(LogSumExp2(e.non_blank_end_logprob, e.blank_end_logprob),
                           Canon(LastFrame[succ[j].prefix[Len(succ[j].prefix)]], 1))
              /\ succ[j].blank_end_logprob = NegInf
        /\ \A j, k \in 2 .. Len(succ) : j # k => succ[j].prefix # succ[k].prefix

NewSymbols(i) ==
    {next_beam_entries[i][j].prefix[Len(entries[i].prefix) + 1] :
        j \in 2 .. Len(next_beam_entries[i])}

\* The symbols of the top beam_size + 2 that are neither the blank nor the
\* entry's last symbol, in the order of top_indices.
RECURSIVE Eligible(_, _)
Eligible(top, excluded) ==
    IF Len(top) = 0 THEN << >>
    ELSE IF Head(top) \in excluded THEN Eligible(Tail(top), excluded)
    ELSE << Head(top) >> \o Eligible(Tail(top), excluded)

EligibleOf(i) == Eligible(top_indices, {blank, last_idx_of(entries[i], blank)})

\* C9 as stated: the new-symbol successors are one per symbol of the top
\* beam_size + 2 that is neither blank nor the last symbol, plus one per
\* remaining token to be considered.
C9_Original ==
    AfterStep =>
        \A i \in 1 .. Len(entries) :
            /\ SuccessorsAreNewSymbols(i)
            /\ NewSymbols(i) =
                  Range(EligibleOf(i)) \cup tokens_to_be_considered(entries[i], entries)

\* C9 amended: the new-symbol successors are one per symbol among the FIRST
\* beam_size symbols, in descending order of probability, of the top
\* beam_size + 2 that are neither blank nor the entry's last symbol, plus
\* one per token to be considered not already covered.
C9_NewSymbolSuccessors ==
    AfterStep =>
        \A i \in 1 .. Len(entries) :
            /\ SuccessorsAreNewSymbols(i)
            /\ Len(EligibleOf(i)) >= beam_size
            /\ NewSymbols(i) =
                  Range(SubSeq(EligibleOf(i), 1, beam_size))
                     \cup tokens_to_be_considered(entries[i], entries)

\* A step in which an entry had a token to be considered outside the first
\* beam_size eligible symbols, and an entry had more than beam_size
\* eligible symbols.
C9_Witness ==
    /\ AfterStep
    /\ \E i \in 1 .. Len(entries) :
          tokens_to_be_considered(entries[i], entries)
             \ Range(SubSeq(EligibleOf(i), 1, beam_size)) # {}
    /\ \E i \in 1 .. Len(entries) : Len(EligibleOf(i)) > beam_size

\* The mass of field-values xs as an integer over Unit^E.
RECURSIVE MassOver(_, _)
MassOver(xs, E) ==
    IF Len(xs) = 0 THEN 0
    ELSE Head(xs).m * Pow(Unit, E - Head(xs).e) + MassOver(Tail(xs), E)

SameMass(x, xs) ==
    LET E == Max(x.e, MaxSeq([i \in 1 .. Len(xs) |-> xs[i].e]))
    IN  MassOver(<< x >>, E) = MassOver(xs, E)

Permuted(es, f) == [i \in 1 .. Len(es) |-> es[f[i]]]

\* C7: deduplicate returns exactly one entry per distinct prefix of its
\* input, whose non-blank (blank) mass is the sum of the non-blank (blank)
\* masses of the input entries with that prefix; the merged entries are the
\* same for every ordering and every grouping of the input.
C7_DeduplicateMerges ==
    pc = "deduplicated" =>
        /\ NoDupPrefix(new_beam)
        /\ {new_beam[i].prefix : i \in 1 .. Len(new_beam)}
              = {beam_with_dup[i].prefix : i \in 1 .. Len(beam_with_dup)}
        /\ \A i \in 1 .. Len(new_beam) :
              LET same == SameEntries(beam_with_dup, new_beam[i].prefix)
              IN  /\ SameMass(new_beam[i].non_blank_end_logprob,
                              [k \in 1 .. Len(same) |-> same[k].non_blank_end_logprob])
                  /\ SameMass(new_beam[i].blank_end_logprob,
                              [k \in 1 .. Len(same) |-> same[k].blank_end_logprob])
        /\ \A f \in Permutations(1 .. Len(beam_with_dup)) :
              Range(deduplicate(Permuted(beam_with_dup, f))) = Range(new_beam)
        /\ \A k \in 0 .. Len(beam_with_dup) :
              Range(deduplicate(deduplicate(SubSeq(beam_with_dup, 1, k))
                                \o SubSeq(beam_with_dup, k + 1, Len(beam_with_dup))))
                 = Range(new_beam)

\* Three entries of one prefix, with different masses, merged into one next
\* to an entry of another prefix.
C7_Witness ==
    /\ pc = "deduplicated"
    /\ Len(beam_with_dup) = 3
    /\ Len(new_beam) = 1
    /\ beam_with_dup[1] # beam_with_dup[2]
    /\ beam_with_dup[1].non_blank_end_logprob # NegInf
    /\ beam_with_dup[2].non_blank_end_logprob # NegInf
    /\ beam_with_dup[3].blank_end_logprob # NegInf
    /\ beam_with_dup[2].blank_end_logprob # NegInf

\* The greedy result of an item: arg-max per valid frame, repeats
\* collapsed, blanks dropped.
GreedyTokens(frames) ==
    predicted_tokens(most_likely_elements(frames, vocab_size), blank)

\* C3: in greedy mode the search returns, for each batch item, the arg-max
\* labels of its valid frames with repeats collapsed and blanks dropped.
C3_BestPathReturnsCollapse ==
    (sampling /\ pc \in {"done", "error"}) =>
        /\ pc = "done"
        /\ ~returned.none
        /\ Len(returned.value) = BatchSize
        /\ \A b \in 1 .. BatchSize :
              returned.value[b].tokens
                 = GreedyTokens(SubSeq(prob_ctc[b], 1, ctc_lengths[b]))

\* The run of the regression example: 3 symbols with blank 0, beam_size 2,
\* one item of 2 frames, the frames read so far being those of the example.
RegressionRun ==
    /\ ~sampling /\ vocab_size = 3 /\ blank = 0 /\ beam_size = 2
    /\ ctc_lengths = << 2 >>
    /\ prob_ctc[1] = SubSeq(RegressionInput, 1, Len(prob_ctc[1]))

\* C4: on the regression example beam_search produces a list in which [B]
\* is first or second and no two hypotheses have the same prefix.
C4_RegressionExample ==
    RegressionRun =>
        /\ pc # "error"
        /\ pc = "done" =>
              /\ \E i \in 1 .. Min(2, Len(returned.value[1])) :
                    returned.value[1][i].tokens = << 2 >>
              /\ NoDupTokens(returned.value[1])

Dominant(f) == \E i \in Labels(vocab_size) : 2 * f[i] > Unit

\* C5: with len_penalty = 0 and the largest beam_size the vocabulary admits,
\* on items whose frames all have a dominant label, the top hypothesis of
\* beam_search is the greedy result.
C5_TopMatchesGreedy ==
    (InBeamSearch /\ pc = "done" /\ len_penalty = 0 /\ beam_size = vocab_size - 2) =>
        \A b \in 1 .. BatchSize :
            (\A t \in 1 .. Len(prob_ctc[b]) : Dominant(prob_ctc[b][t])) =>
                returned.value[b][1].tokens = GreedyTokens(prob_ctc[b])

====
